---------------------------- MODULE Spec2Model ----------------------------
(***************************************************************************)
(* A model of the Bao1x firmware signing tools: signer.py (the re-seal     *)
(* detector, the SealedData and SignedBlob records and the signer          *)
(* command) and uf2ify.py (the UF2 block packer).                          *)
(*                                                                         *)
(* Bytes are the integers 0..255 and a byte string is a sequence of them.  *)
(* Python's optional arguments are sequences of length 0 (None) or 1 (the  *)
(* supplied value).  Offsets keep Python's 0-based convention in operator  *)
(* arguments; sequences are 1-based as usual in TLA+.                      *)
(***************************************************************************)
EXTENDS Integers, Sequences, FiniteSets, TLC

VARIABLES
    \* ---- signer.py: one invocation after another of the signer command
    pc,          \* position of main()
    argc,        \* len(sys.argv)
    infile,      \* contents of the file named by sys.argv[1]
    outfile,     \* the file named by sys.argv[2]: <<>> absent, <<bytes>> present
    dev_sk,      \* the key material DEV_KEY_RAW decoded from DEV_KEY_PEM
    payload,     \* main's local `payload`
    blob,        \* main's local `blob` (serialized SealedData)
    signed_blob, \* main's local `signed_blob` (<<>> until constructed)
    error,       \* the exception that ended the run ("none" while running)
    trace,       \* what the run has done so far, in order
    runs,        \* the images written by the completed runs, in order
    \* ---- SealedData as a function of its constructor arguments
    epc, eargs, esealed, ebytes,
    \* ---- uf2ify.py: uf2ify(data, family_id, app_start_addr)
    upc, data, family_id, app_start_addr, blockno, out, uerror

svars == <<pc, argc, infile, outfile, dev_sk, payload, blob, signed_blob,
           error, trace, runs>>
evars == <<epc, eargs, esealed, ebytes>>
uvars == <<upc, data, family_id, app_start_addr, blockno, out, uerror>>
vars  == <<svars, evars, uvars>>

---------------------------------------------------------------------------
(* Bounds of the model *)

\* the inputs of the signer carry up to MaxTail bytes after a 768-byte header
MaxTail == 2
\* the signer command is run up to MaxRuns times, each on the previous output
MaxRuns == 2
\* uf2ify is given up to MaxBlocks blocks worth of data
MaxBlocks == 3
\* byte patterns filling the inputs are numbered 0..MaxSeed
MaxSeed == 1

---------------------------------------------------------------------------
(* Byte strings, Python slices, struct.pack *)

Min(a, b) == IF a < b THEN a ELSE b

\* s[a:b] for 0 <= a, 0 <= b
Slice(s, a, b) == SubSeq(s, a + 1, Min(b, Len(s)))

\* s[a:]
SliceFrom(s, a) == SubSeq(s, a + 1, Len(s))

\* bytes(n), b'\x00' * n, bytearray(n)
Zeros(n) == [i \in 1..n |-> 0]

\* struct.pack("<I", n) raises struct.error outside 0..2^32-1
U32Ok(n) == n >= 0 /\ n \div 65536 < 65536

\* struct.pack("<I", n) for n in range
LE32(n) == <<n % 256, (n \div 256) % 256, (n \div 65536) % 256,
             (n \div 16777216) % 256>>

\* struct.unpack(">I", b)
BE32(b) == b[1] * 16777216 + b[2] * 65536 + b[3] * 256 + b[4]

\* struct.pack("<Ns", b): truncated or zero-padded to n bytes
PackS(n, b) == [i \in 1..n |-> IF i <= Len(b) THEN b[i] ELSE 0]

\* Python truthiness of an optional int: None and 0 are falsy
TruthyInt(opt) == Len(opt) = 1 /\ opt[1] # 0

\* Python truthiness of an optional bytes value: None and b'' are falsy
TruthyBytes(opt) == Len(opt) = 1 /\ Len(opt[1]) > 0

---------------------------------------------------------------------------
(* signer.py: constants *)

DEV_KEY_RAW ==
    <<168, 167, 118, 92, 141, 162, 215, 147, 134, 43, 8, 176, 0, 222, 188,
      167, 178, 14, 137, 237, 82, 199, 133, 162, 179, 235, 161, 219, 156,
      182, 42, 39>>

SIGBLOCK_LEN == 768

SBLOB_LEN == 132

\* Pubkey.__init__ and Pubkey.__bytes__
Pubkey(pk, tag) == [pk |-> pk, tag |-> tag]

Pubkey_bytes(p) == p.pk \o p.tag

PUBKEYS == <<
    Pubkey(Zeros(32), Zeros(4)),
    Pubkey(<<121, 19, 93, 198, 103, 175, 244, 247, 211, 82, 185, 3, 40, 120,
             142, 191, 146, 199, 134, 120, 33, 56, 179, 119, 55, 11, 21, 25,
             78, 49, 40, 136>>, <<98, 97, 111, 50>>),
    Pubkey(<<128, 151, 153, 41, 237, 208, 78, 64, 18, 75, 82, 202, 233, 174,
             84, 178, 75, 223, 247, 42, 123, 138, 0, 76, 65, 6, 91, 209, 64,
             32, 120, 167>>, <<98, 101, 116, 97>>),
    Pubkey(<<28, 155, 234, 227, 42, 234, 200, 117, 7, 193, 128, 148, 56,
             126, 255, 28, 116, 97, 66, 130, 175, 253, 129, 82, 216, 113,
             53, 46, 223, 63, 88, 187>>, <<100, 101, 118, 32>>) >>

\* bytes.fromhex("6f000030")
JAL_BYTES == <<111, 0, 0, 48>>

\* b'ymuy3oaB'
MAGIC_REVERSED == <<121, 109, 117, 121, 51, 111, 97, 66>>

\* b"yumyBao3"
MAGIC_ASCII == <<121, 117, 109, 121, 66, 97, 111, 51>>

MAIN_MIN_SEMVER == <<0, 0, 9, 0, 8, 0, 23, 3, 0, 0, 0, 0, 0, 0, 0, 0>>

MAIN_SEMVER == <<0, 0, 9, 0, 16, 0, 252, 9, 242, 41, 245, 71, 1, 0, 0, 0>>

\* the RFC 8032 section 7.3 test vector of test_ed25519ph
TEST_SECRET_KEY ==
    <<131, 63, 230, 36, 9, 35, 123, 157, 98, 236, 119, 88, 117, 32, 145, 30,
      154, 117, 156, 236, 29, 25, 117, 91, 125, 169, 1, 185, 109, 202, 61,
      66>>

TEST_PUBLIC_KEY ==
    <<236, 23, 43, 147, 173, 94, 86, 59, 244, 147, 44, 112, 225, 36, 80, 52,
      195, 84, 103, 239, 46, 253, 77, 100, 235, 248, 25, 104, 52, 103, 226,
      191>>

TEST_MESSAGE == <<97, 98, 99>>

TEST_SIGNATURE ==
    <<152, 167, 2, 34, 240, 184, 18, 26, 169, 211, 15, 129, 61, 104, 63,
      128, 158, 70, 43, 70, 156, 127, 248, 118, 57, 73, 155, 185, 78, 109,
      174, 65, 49, 248, 80, 66, 70, 60, 42, 53, 90, 32, 3, 208, 98, 173,
      245, 170, 161, 11, 140, 97, 230, 54, 6, 42, 170, 209, 28, 42, 38, 8,
      52, 6>>

---------------------------------------------------------------------------
(* libsodium, as far as signer.py depends on it *)

\* What one use of the library can do: every call returns 0 and the
\* signature is the Ed25519ph signature ("ok"); one of the three calls
\* returns non-zero; or every call returns 0 and the bytes left in the
\* signature buffer are not the signature (a broken or replaced library).
LibOutcomes == {"ok", "init", "update", "final", "wrong"}

\* crypto_sign_ed25519ph_{init,update,final_create} of a sound library: a
\* deterministic function of the 64-byte key and the message that yields
\* the RFC 8032 answer on the RFC 8032 vector.  The other values only need
\* to be 64 bytes depending on key and message.
Ed25519ph(sk, message) ==
    IF sk = TEST_SECRET_KEY \o TEST_PUBLIC_KEY /\ message = TEST_MESSAGE
    THEN TEST_SIGNATURE
    ELSE [i \in 1..64 |->
            (sk[i] + Len(message) + i
             + (IF Len(message) = 0 THEN 0
                ELSE message[((i * 13) % Len(message)) + 1])) % 256]

\* the contents of the signature buffer after the three calls returned 0
SignatureBuffer(sk, message, lib) ==
    IF lib = "wrong"
    THEN [i \in 1..64 |-> (Ed25519ph(sk, message)[i] + 1) % 256]
    ELSE Ed25519ph(sk, message)

\* ed25519ph_sign(secret_key_bytes, public_key_bytes, message)
ed25519ph_sign(secret_key_bytes, public_key_bytes, message, lib) ==
    IF Len(secret_key_bytes) # 32 \/ Len(public_key_bytes) # 32
    THEN [err |-> "ValueError", sig |-> <<>>]
    ELSE IF lib = "init"
    THEN [err |-> "RuntimeError_init", sig |-> <<>>]
    ELSE IF lib = "update"
    THEN [err |-> "RuntimeError_update", sig |-> <<>>]
    ELSE IF lib = "final"
    THEN [err |-> "RuntimeError_final", sig |-> <<>>]
    ELSE [err |-> "none",
          sig |-> SignatureBuffer(secret_key_bytes \o public_key_bytes,
                                  message, lib)]

\* test_ed25519ph(): "raise" with the exception of ed25519ph_sign, or the
\* boolean it returns
test_ed25519ph(lib) ==
    LET r == ed25519ph_sign(TEST_SECRET_KEY, TEST_PUBLIC_KEY, TEST_MESSAGE, lib)
    IN  IF r.err # "none"
        THEN [err |-> r.err, ret |-> FALSE]
        ELSE [err |-> "none", ret |-> (r.sig = TEST_SIGNATURE)]

---------------------------------------------------------------------------
(* signer.py: SealedData *)

fields_len == (4 * 6) + 16 + 16 + 144

pad_len == SIGBLOCK_LEN - SBLOB_LEN - fields_len

\* "Baremetal function code is 6"
BAREMETAL_CODE == 6

\* self.magic = struct.unpack(">2I", b"yumyBao3")
SealedMagic == <<BE32(SubSeq(MAGIC_ASCII, 1, 4)), BE32(SubSeq(MAGIC_ASCII, 5, 8))>>

\* the length of the whole image instead of the length of what is signed
SignedLen_whole(p) == SIGBLOCK_LEN + Len(p)

\* self.signed_len
SignedLen(p) == SIGBLOCK_LEN - SBLOB_LEN + Len(p)

\* self.function_code = function_code or 6
FunctionCodeOf(function_code) ==
    IF TruthyInt(function_code) THEN function_code[1] ELSE BAREMETAL_CODE

\* self.min_semver = min_semver or bytearray(16); the same for semver
SemverOf(semver) == IF TruthyBytes(semver) THEN semver[1] ELSE Zeros(16)

\* self.pubkeys = b''.join([bytes(pk) for pk in PUBKEYS])
PubkeysBytes ==
    Pubkey_bytes(PUBKEYS[1]) \o Pubkey_bytes(PUBKEYS[2])
        \o Pubkey_bytes(PUBKEYS[3]) \o Pubkey_bytes(PUBKEYS[4])

\* SealedData.__init__: err is "AssertionError" when one of its asserts fails
SealedData(p, function_code, min_semver, semver) ==
    LET self == [version       |-> 256,
                 magic         |-> SealedMagic,
                 signed_len    |-> SignedLen(p),
                 function_code |-> FunctionCodeOf(function_code),
                 reserved      |-> 0,
                 min_semver    |-> SemverOf(min_semver),
                 semver        |-> SemverOf(semver),
                 pubkeys       |-> PubkeysBytes,
                 pad           |-> Zeros(pad_len),
                 payload       |-> p]
    IN  self @@
        [err |-> IF /\ Len(self.magic) = 2
                    /\ Len(self.min_semver) = 16
                    /\ Len(self.semver) = 16
                    /\ Len(self.pubkeys) = 36 * 4
                    /\ SIGBLOCK_LEN = 768
                 THEN "none" ELSE "AssertionError"]

\* the struct.pack of SealedData.__bytes__
SealedFields(self) ==
    LE32(self.version) \o LE32(self.magic[1]) \o LE32(self.magic[2])
        \o LE32(self.signed_len) \o LE32(self.function_code)
        \o LE32(self.reserved) \o PackS(16, self.min_semver)
        \o PackS(16, self.semver) \o PackS(144, self.pubkeys)

\* the padding left out of the join
SealedData_bytes_nopad(self) ==
    [err |-> "none", bytes |-> SealedFields(self) \o self.payload]

\* SealedData.__bytes__: struct.error for a field that is no u32, an
\* AssertionError for a wrong length
SealedData_bytes(self) ==
    IF ~(U32Ok(self.signed_len) /\ U32Ok(self.function_code))
    THEN [err |-> "struct.error", bytes |-> <<>>]
    ELSE IF Len(SealedFields(self)) # 200 \/ Len(self.pad) # 436
    THEN [err |-> "AssertionError", bytes |-> <<>>]
    ELSE [err |-> "none",
          bytes |-> SealedFields(self) \o self.pad \o self.payload]

---------------------------------------------------------------------------
(* signer.py: SignedBlob *)

JAL_X0 == 805306479

\* SignedBlob.__init__
SignedBlob(sk, sealed_data, lib) ==
    LET r == ed25519ph_sign(sk, PUBKEYS[4].pk, sealed_data, lib)
    IN  IF r.err # "none"
        THEN [err |-> r.err]
        ELSE IF Len(r.sig) # 64 \/ SBLOB_LEN # 132
        THEN [err |-> "AssertionError"]
        ELSE [err         |-> "none",
              jal_x0      |-> JAL_X0,
              signature   |-> r.sig,
              aad_len     |-> 0,
              aad         |-> Zeros(60),
              sealed_data |-> sealed_data]

\* the struct.pack of SignedBlob.__bytes__
SignedHeader(self) ==
    LE32(self.jal_x0) \o PackS(64, self.signature) \o LE32(self.aad_len)
        \o PackS(60, self.aad)

\* SignedBlob.__bytes__
SignedBlob_bytes(self) ==
    IF Len(SignedHeader(self)) # SBLOB_LEN
    THEN [err |-> "AssertionError", bytes |-> <<>>]
    ELSE [err |-> "none", bytes |-> SignedHeader(self) \o self.sealed_data]

---------------------------------------------------------------------------
(* signer.py: the re-seal detector of main() *)

\* starts_with_jal = payload[:4] == bytes.fromhex("6f000030")
starts_with_jal(p) == Slice(p, 0, 4) = JAL_BYTES

\* the magic compared as it is spelled, not as SealedData serializes it
matches_magic_spelled(p) == Slice(p, 136, 144) = MAGIC_ASCII

\* matches_magic = payload[0x88:0x90] == b'ymuy3oaB'
matches_magic(p) == Slice(p, 136, 144) = MAGIC_REVERSED

\* one signal taken as enough
HasSealedHeader_either(p) == starts_with_jal(p) \/ matches_magic(p)

\* if starts_with_jal and matches_magic:
HasSealedHeader(p) == starts_with_jal(p) /\ matches_magic(p)

\* the payload handed to SealedData
Reseal(p) == IF HasSealedHeader(p) THEN SliceFrom(p, SIGBLOCK_LEN) ELSE p

---------------------------------------------------------------------------
(* signer.py: the signer command, main() *)

\* the contents a file at the output path may have before the run
STALE == <<222, 173>>

InitialOutfiles == {<<>>, <<STALE>>}

\* The input files: byte k (0-based) of pattern `seed`, overlaid with the
\* jump opcode at offset 0 and with the magic at offset 0x88, reversed as
\* the bootloader wants it or as it is spelled, as far as the length goes.
InputKinds == {"plain", "jal", "magic", "both", "jal_spelled"}

InputByte(kind, seed, k) ==
    IF kind \in {"jal", "both", "jal_spelled"} /\ k < 4
    THEN JAL_BYTES[k + 1]
    ELSE IF kind \in {"magic", "both"} /\ k >= 136 /\ k < 144
    THEN MAGIC_REVERSED[k - 135]
    ELSE IF kind = "jal_spelled" /\ k >= 136 /\ k < 144
    THEN MAGIC_ASCII[k - 135]
    ELSE (seed * 101 + k * 7 + 1) % 256

InputFile(kind, len, seed) == [i \in 1..len |-> InputByte(kind, seed, i - 1)]

InputLens == {0, 3, 4, 143, 144, 767} \cup {768 + t : t \in 0..MaxTail}

InputFiles ==
    {InputFile(kind, len, seed) :
        kind \in InputKinds, len \in InputLens, seed \in 0..MaxSeed}

\* DEV_KEY_RAW is the last 32 bytes of the decoded PEM body, fewer when the
\* PEM body in the file decodes to fewer
DevKeys == {DEV_KEY_RAW, SubSeq(DEV_KEY_RAW, 2, 32)}

SignerInit ==
    /\ pc = "start"
    /\ argc \in {2, 3, 4}
    /\ infile \in InputFiles
    /\ outfile \in InitialOutfiles
    /\ dev_sk \in DevKeys
    /\ payload = <<>>
    /\ blob = <<>>
    /\ signed_blob = <<>>
    /\ error = "none"
    /\ trace = <<>>
    /\ runs = <<>>

Raise(e) == pc' = "abort" /\ error' = e

\* if len(sys.argv) != 3: usage, sys.exit(1)
CheckArgs ==
    /\ pc = "start"
    /\ IF argc # 3
       THEN pc' = "exit1" /\ trace' = Append(trace, "usage")
       ELSE pc' = "selftest" /\ trace' = trace
    /\ UNCHANGED <<evars, uvars, argc, infile, outfile, dev_sk, payload, blob, signed_blob,
                   error, runs>>

\* the self-test run with its result dropped
SelfTest_unchecked ==
    /\ pc = "selftest"
    /\ \E lib \in LibOutcomes :
          LET t == test_ed25519ph(lib)
          IN  IF t.err # "none"
              THEN Raise(t.err) /\ trace' = Append(trace, "selftest_raised")
              ELSE /\ pc' = "read" /\ error' = error
                   /\ trace' = Append(trace, IF t.ret THEN "selftest_ok"
                                             ELSE "selftest_failed")
    /\ UNCHANGED <<evars, uvars, argc, infile, outfile, dev_sk, payload, blob,
                   signed_blob, runs>>

\* assert test_ed25519ph(), "ed25519 test vector signing failed"
SelfTest ==
    /\ pc = "selftest"
    /\ \E lib \in LibOutcomes :
          LET t == test_ed25519ph(lib)
          IN  IF t.err # "none"
              THEN Raise(t.err) /\ trace' = Append(trace, "selftest_raised")
              ELSE IF ~t.ret
              THEN Raise("AssertionError")
                   /\ trace' = Append(trace, "selftest_failed")
              ELSE pc' = "read" /\ error' = error
                   /\ trace' = Append(trace, "selftest_ok")
    /\ UNCHANGED <<evars, uvars, argc, infile, outfile, dev_sk, payload, blob, signed_blob,
                   runs>>

\* with open(sys.argv[1], "rb") as f: payload = f.read()
ReadInput ==
    /\ pc = "read"
    /\ payload' = infile
    /\ trace' = Append(trace, "read")
    /\ pc' = "detect"
    /\ UNCHANGED <<evars, uvars, argc, infile, outfile, dev_sk, blob, signed_blob, error,
                   runs>>

\* the header check and the slice
Detect ==
    /\ pc = "detect"
    /\ payload' = Reseal(payload)
    /\ trace' = IF HasSealedHeader(payload)
                THEN Append(trace, "slicing") ELSE trace
    /\ pc' = "seal"
    /\ UNCHANGED <<evars, uvars, argc, infile, outfile, dev_sk, blob, signed_blob, error,
                   runs>>

\* blob = bytes(SealedData(payload, min_semver=min_semver, semver=semver))
Seal ==
    /\ pc = "seal"
    /\ LET sd == SealedData(payload, <<>>, <<MAIN_MIN_SEMVER>>, <<MAIN_SEMVER>>)
           b  == SealedData_bytes(sd)
       IN  IF sd.err # "none"
           THEN Raise(sd.err) /\ UNCHANGED <<blob, trace>>
           ELSE IF b.err # "none"
           THEN Raise(b.err) /\ UNCHANGED <<blob, trace>>
           ELSE /\ blob' = b.bytes
                /\ trace' = Append(trace, "sealed")
                /\ pc' = "sign"
                /\ error' = error
    /\ UNCHANGED <<evars, uvars, argc, infile, outfile, dev_sk, payload, signed_blob, runs>>

\* signed_blob = SignedBlob(DEV_KEY_RAW, sealed_data=blob)
Sign ==
    /\ pc = "sign"
    /\ \E lib \in LibOutcomes :
          LET sb == SignedBlob(dev_sk, blob, lib)
          IN  IF sb.err # "none"
              THEN /\ Raise(sb.err)
                   /\ trace' = Append(trace, "devkey")
                   /\ signed_blob' = signed_blob
              ELSE /\ signed_blob' = <<sb>>
                   /\ trace' = trace \o <<"devkey", "signed">>
                   /\ pc' = "open"
                   /\ error' = error
    /\ UNCHANGED <<evars, uvars, argc, infile, outfile, dev_sk, payload, blob, runs>>

\* the output opened around the construction of the SignedBlob
OpenOutput_early ==
    /\ pc = "sign"
    /\ outfile \in InitialOutfiles
    /\ outfile' = << <<>> >>
    /\ trace' = Append(trace, "open")
    /\ UNCHANGED <<evars, uvars, pc, argc, infile, dev_sk, payload, blob,
                   signed_blob, error, runs>>

\* with open(outfile, "wb") as f: creates the file or truncates it
OpenOutput ==
    /\ pc = "open"
    /\ outfile' = << <<>> >>
    /\ trace' = Append(trace, "open")
    /\ pc' = "write"
    /\ UNCHANGED <<evars, uvars, argc, infile, dev_sk, payload, blob, signed_blob, error,
                   runs>>

\* f.write(bytes(signed_blob))
WriteOutput ==
    /\ pc = "write"
    /\ LET b == SignedBlob_bytes(signed_blob[1])
       IN  IF b.err # "none"
           THEN Raise(b.err) /\ UNCHANGED <<outfile, trace, runs>>
           ELSE /\ outfile' = <<b.bytes>>
                /\ trace' = Append(trace, "write")
                /\ runs' = Append(runs, b.bytes)
                /\ pc' = "done"
                /\ error' = error
    /\ UNCHANGED <<evars, uvars, argc, infile, dev_sk, payload, blob, signed_blob>>

\* the command is run again, on the image the last run wrote
Rerun ==
    /\ pc = "done"
    /\ Len(runs) < MaxRuns
    /\ infile' = outfile[1]
    /\ outfile' \in InitialOutfiles
    /\ pc' = "start"
    /\ payload' = <<>>
    /\ blob' = <<>>
    /\ signed_blob' = <<>>
    /\ trace' = <<>>
    /\ UNCHANGED <<evars, uvars, argc, dev_sk, error, runs>>

Next ==
    \/ CheckArgs
    \/ SelfTest
    \/ ReadInput
    \/ Detect
    \/ Seal
    \/ Sign
    \/ OpenOutput
    \/ WriteOutput
    \/ Rerun

SIdle ==
    /\ pc = "idle" /\ argc = 0 /\ infile = <<>> /\ outfile = <<>>
    /\ dev_sk = DEV_KEY_RAW /\ payload = <<>> /\ blob = <<>>
    /\ signed_blob = <<>> /\ error = "none" /\ trace = <<>> /\ runs = <<>>

EIdle == epc = "idle" /\ eargs = <<>> /\ esealed = <<>> /\ ebytes = <<>>

UIdle ==
    /\ upc = "idle" /\ data = <<>> /\ family_id = <<0, 0>>
    /\ app_start_addr = <<0, 0>> /\ blockno = 0 /\ out = <<>>
    /\ uerror = "none"

Init == SignerInit /\ EIdle /\ UIdle

Spec == Init /\ [][Next]_vars

---------------------------------------------------------------------------
(* signer.py: SealedData applied to its constructor arguments *)

Pattern(len, seed) == [i \in 1..len |-> (seed * 101 + (i - 1) * 7 + 1) % 256]

SealedPayloads == {Pattern(len, seed) : len \in 0..MaxTail, seed \in 0..MaxSeed}

\* function_code: absent, or a 32-bit value
FunctionCodeArgs == {<<>>, <<0>>, <<1>>, <<6>>, <<7>>, <<2147483647>>}

\* min_semver, semver: absent, or a 16-byte value, or one of another length
SemverArgs ==
    {<<>>, <<Zeros(16)>>, <<MAIN_MIN_SEMVER>>, <<MAIN_SEMVER>>,
     << <<>> >>, <<SubSeq(MAIN_SEMVER, 1, 15)>>}

SealedInit ==
    /\ epc = "args"
    /\ eargs \in [payload : SealedPayloads, function_code : FunctionCodeArgs,
                  min_semver : SemverArgs, semver : SemverArgs]
    /\ esealed = <<>>
    /\ ebytes = <<>>

\* sd = SealedData(payload, function_code, min_semver, semver)
Construct ==
    /\ epc = "args"
    /\ LET sd == SealedData(eargs.payload, eargs.function_code,
                            eargs.min_semver, eargs.semver)
       IN  /\ esealed' = <<sd>>
           /\ epc' = IF sd.err = "none" THEN "constructed" ELSE "raised"
    /\ UNCHANGED <<svars, uvars, eargs, ebytes>>

\* bytes(sd)
Serialize ==
    /\ epc = "constructed"
    /\ LET b == SealedData_bytes(esealed[1])
       IN  /\ ebytes' = <<b>>
           /\ epc' = IF b.err = "none" THEN "serialized" ELSE "raised"
    /\ UNCHANGED <<svars, uvars, eargs, esealed>>

NextSealed ==
    \/ Construct
    \/ Serialize

InitSealed == SIdle /\ SealedInit /\ UIdle

SpecSealed == InitSealed /\ [][NextSealed]_vars

---------------------------------------------------------------------------
(* uf2ify.py *)

\* A 32-bit word w is the pair <<w \div 2^16, w % 2^16>>: the first part
\* is 2^16 or more exactly when the number does not fit 32 bits.
Wide(n) == <<n \div 65536, n % 65536>>

\* w + n for a number n >= 0
WideAdd(w, n) == <<w[1] + (w[2] + n) \div 65536, (w[2] + n) % 65536>>

\* struct.pack("<I", w) raises struct.error outside 0..2^32-1
WideOk(w) == w[1] >= 0 /\ w[1] < 65536

\* struct.pack("<I", w) for w in range
WideLE32(w) == <<w[2] % 256, w[2] \div 256, w[1] % 256, w[1] \div 256>>

\* 0xa7d7_6373
BAOCHIP_1X_UF2_FAMILY == <<42967, 25459>>

\* 0x60060000
BAREMETAL_START == <<24582, 0>>

\* 0x0A324655
UF2_MAGIC_START0 == <<2610, 18005>>

\* 0x9E5D5157
UF2_MAGIC_START1 == <<40541, 20823>>

\* 0x0AB16F30
UF2_MAGIC_END == <<2737, 28464>>

\* the count rounded down
NBlocks_floor(d) == Len(d) \div 256

\* nblocks = (len(data) + 255) // 256
NBlocks(d) == (Len(d) + 255) \div 256

\* datapad = bytes(512 - 256 - 32 - 4)
datapad == Zeros(512 - 256 - 32 - 4)

\* ptr = 256 * blockno
Ptr(b) == 256 * b

\* the slice one byte short
Chunk_short(d, b) ==
    LET c == Slice(d, Ptr(b), Ptr(b) + 255)
    IN  IF Len(c) < 256 THEN c \o Zeros(256 - Len(c)) ELSE c

\* chunk = data[ptr:ptr + 256], zero-padded to 256 bytes
Chunk(d, b) ==
    LET c == Slice(d, Ptr(b), Ptr(b) + 256)
    IN  IF Len(c) < 256 THEN c \o Zeros(256 - Len(c)) ELSE c

\* flags = 0x2000 if family_id != 0 else 0
Flags(fam) == IF fam # <<0, 0>> THEN 8192 ELSE 0

\* the eight values of struct.pack("<8I", ...)
HeaderWords(d, fam, addr, b) ==
    <<UF2_MAGIC_START0, UF2_MAGIC_START1, Wide(Flags(fam)),
      WideAdd(addr, Ptr(b)), Wide(256), Wide(b), Wide(NBlocks(d)), fam>>

\* a pack that never refuses a value
HeaderOk_unchecked(d, fam, addr, b) == TRUE

\* struct.pack("<8I", ...) raises struct.error when a value is no u32
HeaderOk(d, fam, addr, b) ==
    \A k \in 1..8 : WideOk(HeaderWords(d, fam, addr, b)[k])

Header(d, fam, addr, b) ==
    LET w == HeaderWords(d, fam, addr, b)
    IN  WideLE32(w[1]) \o WideLE32(w[2]) \o WideLE32(w[3]) \o WideLE32(w[4])
        \o WideLE32(w[5]) \o WideLE32(w[6]) \o WideLE32(w[7])
        \o WideLE32(w[8])

\* what one iteration of the loop appends to out
Block(d, fam, addr, b) ==
    Header(d, fam, addr, b) \o Chunk(d, b) \o datapad
        \o WideLE32(UF2_MAGIC_END)

DataLens == {l \in 0..(256 * MaxBlocks) : l % 256 \in {0, 1, 255}}

DataSet == {Pattern(len, seed) : len \in DataLens, seed \in 0..MaxSeed}

\* 0, the family main() passes, and 0xFFFFFFFF
FamilyIds == {<<0, 0>>, BAOCHIP_1X_UF2_FAMILY, <<65535, 65535>>}

\* 0, the address main() passes, 2^32 - 256 and 2^32 - 1
BaseAddresses == {<<0, 0>>, BAREMETAL_START, <<65535, 65280>>, <<65535, 65535>>}

\* the call uf2ify(data, family_id, app_start_addr), at the top of its loop
Uf2Init ==
    /\ upc = "loop"
    /\ data \in DataSet
    /\ family_id \in FamilyIds
    /\ app_start_addr \in BaseAddresses
    /\ blockno = 0
    /\ out = <<>>
    /\ uerror = "none"

\* one iteration of: for blockno in range(nblocks)
PackBlock ==
    /\ upc = "loop"
    /\ blockno < NBlocks(data)
    /\ IF HeaderOk(data, family_id, app_start_addr, blockno)
       THEN /\ out' = out \o Block(data, family_id, app_start_addr, blockno)
            /\ blockno' = blockno + 1
            /\ UNCHANGED <<upc, uerror>>
       ELSE /\ upc' = "raised"
            /\ uerror' = "struct.error"
            /\ UNCHANGED <<out, blockno>>
    /\ UNCHANGED <<svars, evars, data, family_id, app_start_addr>>

\* return bytes(out)
Return ==
    /\ upc = "loop"
    /\ blockno = NBlocks(data)
    /\ upc' = "returned"
    /\ UNCHANGED <<svars, evars, data, family_id, app_start_addr, blockno,
                   out, uerror>>

NextUf2 ==
    \/ PackBlock
    \/ Return

InitUf2 == SIdle /\ EIdle /\ Uf2Init

SpecUf2 == InitUf2 /\ [][NextUf2]_vars

---------------------------------------------------------------------------
(* Properties of the signer command, under Spec *)

\* what a reader of an image takes as its payload: the bytes after the
\* 768-byte header
EmbeddedPayload(image) == SubSeq(image, 769, Len(image))

\* a number read from four little-endian bytes
ReadLE32(b) == b[1] + 256 * b[2] + 65536 * b[3] + 16777216 * b[4]

Before(ev1, ev2) ==
    \A i \in 1..Len(trace) :
        trace[i] = ev2 => \E j \in 1..(i - 1) : trace[j] = ev1

Happened(ev) == \E i \in 1..Len(trace) : trace[i] = ev

\* C1: re-sealing is idempotent.  Every image written by a run of the
\* signer on the output of the run before it embeds the payload the first
\* run embedded and is as long as the first image: the output of a signing
\* run is never wrapped a second time.
C1_ResealIdempotent ==
    \A i \in 1..Len(runs) :
        /\ EmbeddedPayload(runs[i]) = EmbeddedPayload(runs[1])
        /\ Len(runs[i]) = Len(runs[1])
        /\ i = Len(runs) /\ pc = "done" =>
               /\ EmbeddedPayload(runs[i]) = payload
               /\ (i > 1 => Len(infile) = 768 + Len(payload))

\* a second run has written its image, and the payload is not empty
C1_Witness ==
    /\ Len(runs) = 2
    /\ pc = "done"
    /\ Len(EmbeddedPayload(runs[1])) > 0

\* C4: signed_len, read back from the serialized SealedData, is
\* 636 + len(payload) and is the length of the serialized SealedData that
\* is signed; the image written is the 132-byte SignedBlob header followed
\* by exactly those bytes, so the payload starts at offset 768.
C4_SignedLen ==
    /\ pc \in {"sign", "open", "write", "done"} =>
          /\ ReadLE32(SubSeq(blob, 13, 16)) = 636 + Len(payload)
          /\ ReadLE32(SubSeq(blob, 13, 16)) = Len(blob)
          /\ Len(blob) = 200 + 436 + Len(payload)
          /\ \A k \in 201..636 : blob[k] = 0
    /\ pc = "done" =>
          /\ Len(outfile[1]) = 132 + Len(blob)
          /\ SubSeq(outfile[1], 133, Len(outfile[1])) = blob
          /\ SubSeq(outfile[1], 769, Len(outfile[1])) = payload
          /\ SubSeq(outfile[1], 5, 68) = signed_blob[1].signature

\* an image with a payload of several bytes has been written
C4_Witness == pc = "done" /\ Len(payload) > 1 /\ Len(runs) = 1

\* the two signals, read off the input file byte by byte
InputStartsWithJal ==
    /\ Len(infile) >= 4
    /\ infile[1] = 111 /\ infile[2] = 0 /\ infile[3] = 0 /\ infile[4] = 48

InputHasReversedMagic ==
    /\ Len(infile) >= 144
    /\ \A k \in 1..8 : infile[136 + k] = MAGIC_REVERSED[k]

\* C6: the re-seal detector strips a header exactly when both signals
\* match.  Once the detector has run, the payload is input[768:] and the
\* slicing is reported if the input starts with the jump opcode and has
\* the reversed magic at 0x88; otherwise the payload is the whole input
\* and no slicing is reported.  The detector raises nothing: a run that
\* has read its input can only fail later, in the signing.
C6_StripsIffBothSignals ==
    /\ pc \in {"seal", "sign", "open", "write", "done"} =>
          IF InputStartsWithJal /\ InputHasReversedMagic
          THEN /\ payload = SubSeq(infile, 769, Len(infile))
               /\ Happened("slicing")
          ELSE /\ payload = infile
               /\ ~Happened("slicing")
    /\ pc = "abort" /\ Happened("read") => Happened("devkey")

\* the first run was given a file with both signals and sliced it
C6_Witness ==
    /\ pc = "seal"
    /\ Len(runs) = 0
    /\ Happened("slicing")
    /\ Len(payload) > 0

\* C7: the output file is opened only after signing has succeeded.  In a
\* run that aborts (key material not 32 bytes, a failure reported by the
\* library, a failed self-test) the output file is what it was before the
\* run: not created, not truncated, not written.
C7_OutputOnlyAfterSigning ==
    /\ Before("signed", "open")
    /\ Before("open", "write")
    /\ ~Happened("signed") => outfile \in InitialOutfiles
    /\ pc = "abort" => ~Happened("open") /\ outfile \in InitialOutfiles
    /\ Len(dev_sk) # 32 => ~Happened("signed") /\ pc # "done"

\* the signing failed at finalize and the stale output file is untouched
C7_Witness ==
    /\ pc = "abort"
    /\ error = "RuntimeError_final"
    /\ Happened("devkey")
    /\ outfile = <<STALE>>

\* C8: a run that gets past the argument check executes the self-test,
\* and the self-test has succeeded before the input file is read and
\* before the development key is used to sign; when the self-test does not
\* succeed the run aborts, having read nothing and signed nothing.
C8_SelfTestFirst ==
    /\ Before("selftest_ok", "read")
    /\ Before("selftest_ok", "devkey")
    /\ pc \notin {"idle", "start", "exit1", "selftest"} =>
          \/ trace[1] = "selftest_ok"
          \/ trace \in {<<"selftest_failed">>, <<"selftest_raised">>}
    /\ Happened("selftest_failed") \/ Happened("selftest_raised") =>
          /\ pc = "abort"
          /\ ~Happened("read")
          /\ ~Happened("devkey")
          /\ ~Happened("signed")

\* the library answered the test vector with a wrong signature
C8_Witness ==
    /\ pc = "abort"
    /\ error = "AssertionError"
    /\ trace = <<"selftest_failed">>

---------------------------------------------------------------------------
(* Properties of SealedData, under SpecSealed *)

\* the bytes of a serialized SealedData that precede its payload
HeaderBeforePayload == Len(ebytes[1].bytes) - Len(eargs.payload)

\* C5 as stated: in every serialized SealedData the fixed header before
\* the payload (fixed fields plus zero padding) is exactly 564 bytes.
C5_HeaderIs564 ==
    epc = "serialized" => HeaderBeforePayload = 564

\* C5 as amended: in every serialized SealedData the fixed header before
\* the payload is exactly 636 bytes, 200 bytes of fixed fields followed by
\* 436 zero bytes, and the payload follows it unchanged.
C5_HeaderIs636 ==
    epc = "serialized" =>
        /\ HeaderBeforePayload = 636
        /\ \A k \in 201..636 : ebytes[1].bytes[k] = 0
        /\ SubSeq(ebytes[1].bytes, 637, Len(ebytes[1].bytes)) = eargs.payload

\* a SealedData with a payload has been serialized
C5_Witness == epc = "serialized" /\ Len(eargs.payload) > 0

Supplied(arg) == Len(arg) = 1

\* C10: defaults apply to absent arguments only.  The serialized
\* function_code is the supplied value for every supplied value, 0
\* included, and 6 when none is supplied; min_semver and semver are the
\* supplied 16-byte values, and all-zero when absent.
C10_DefaultsOnlyWhenAbsent ==
    epc = "serialized" =>
        /\ ReadLE32(SubSeq(ebytes[1].bytes, 17, 20)) =
              (IF Supplied(eargs.function_code)
               THEN eargs.function_code[1] ELSE 6)
        /\ Supplied(eargs.min_semver) /\ Len(eargs.min_semver[1]) = 16 =>
              SubSeq(ebytes[1].bytes, 25, 40) = eargs.min_semver[1]
        /\ ~Supplied(eargs.min_semver) =>
              \A k \in 25..40 : ebytes[1].bytes[k] = 0
        /\ Supplied(eargs.semver) /\ Len(eargs.semver[1]) = 16 =>
              SubSeq(ebytes[1].bytes, 41, 56) = eargs.semver[1]
        /\ ~Supplied(eargs.semver) =>
              \A k \in 41..56 : ebytes[1].bytes[k] = 0

---------------------------------------------------------------------------
(* Properties of uf2ify, under SpecUf2 *)

\* the number of 512-byte records in the stream
NumRecords == Len(out) \div 512

\* word k (0-based) of record i (0-based), as a 32-bit word
Word(i, k) ==
    LET o == 512 * i + 4 * k
    IN  <<out[o + 4] * 256 + out[o + 3], out[o + 2] * 256 + out[o + 1]>>

\* byte j (0-based) of the data field of record i (0-based)
DataByte(i, j) == out[512 * i + 32 + j + 1]

\* n = ceil(l / 256)
IsCeil256(n, l) == n >= 0 /\ 256 * n >= l /\ 256 * (n - 1) < l

\* ceil(len(data) / 256)
CeilBlocks == CHOOSE n \in 0..Len(data) : IsCeil256(n, Len(data))

\* a 32-bit word without its low byte (TLC's integers end at 2^31 - 1)
Upper24(w) == w[1] * 256 + w[2] \div 256

\* every block's target address, base_address + 256*i, fits 32 bits
AddressesFit ==
    CeilBlocks > 0 => Upper24(app_start_addr) + (CeilBlocks - 1) < 16777216

\* C2: block packing round-trips.  The data fields of the returned
\* blocks, concatenated in order and cut to len(data), are data, and every
\* byte of a data field past the end of data is zero.
C2_RoundTrip ==
    upc = "returned" =>
        /\ 256 * NumRecords >= Len(data)
        /\ \A k \in 0..(256 * NumRecords - 1) :
              DataByte(k \div 256, k % 256) =
                  (IF k < Len(data) THEN data[k + 1] ELSE 0)

\* 257 bytes were packed: a full block and a block with one byte of data
C2_Witness == upc = "returned" /\ Len(data) = 257 /\ NumRecords = 2

\* C3: for len(data) = L the stream returned holds exactly ceil(L/256)
\* blocks; every block emitted, at any point of the loop, carries
\* num_blocks = ceil(L/256) and the family_id supplied, and block_no runs
\* 0, 1, 2, ... in output order with no gap or repeat.
C3_BlockCount ==
    /\ Len(out) = 512 * NumRecords
    /\ NumRecords = blockno
    /\ \A i \in 0..(NumRecords - 1) :
          /\ Word(i, 5) = <<0, i>>
          /\ Word(i, 6) = <<0, CeilBlocks>>
          /\ Word(i, 7) = family_id
    /\ upc = "returned" => IsCeil256(NumRecords, Len(data))

\* three blocks were returned, the last one partly filled
C3_Witness == upc = "returned" /\ NumRecords = 3 /\ Len(data) = 513

\* what C9 says of a returned stream
Uf2Stream ==
    /\ Len(out) = 512 * NumRecords
    /\ IsCeil256(NumRecords, Len(data))
    /\ \A i \in 0..(NumRecords - 1) :
          /\ Upper24(Word(i, 3)) = Upper24(app_start_addr) + i
          /\ Word(i, 3)[2] % 256 = app_start_addr[2] % 256
          /\ Word(i, 4) = <<0, 256>>
          /\ Word(i, 2) = (IF family_id # <<0, 0>> THEN <<0, 8192>> ELSE <<0, 0>>)
          /\ Word(i, 0) = UF2_MAGIC_START0
          /\ Word(i, 1) = UF2_MAGIC_START1
          /\ Word(i, 127) = UF2_MAGIC_END
          /\ \A j \in 288..507 : out[512 * i + j + 1] = 0

\* C9 as stated: uf2ify is total.  For every data, 32-bit family_id and
\* 32-bit base_address it returns without error, and the stream returned
\* has ceil(len/256) * 512 bytes with target_addr = base_address + 256*i,
\* payload_len = 256 and flags = 0x2000 exactly when family_id != 0.
C9_Total ==
    /\ upc # "raised"
    /\ upc = "returned" => Uf2Stream

\* C9 as amended: uf2ify returns, with that stream, for every data,
\* 32-bit family_id and 32-bit base_address such that the target address
\* of every block, base_address + 256*i, fits 32 bits; for the other
\* inputs it raises struct.error at the first block whose address does
\* not fit and returns nothing.
C9_TotalWhenAddressesFit ==
    /\ upc = "returned" => AddressesFit /\ Uf2Stream
    /\ upc = "raised" =>
          /\ ~AddressesFit
          /\ uerror = "struct.error"
          /\ Upper24(app_start_addr) + blockno >= 16777216
          /\ Len(out) = 512 * blockno

\* one block returned at the highest base address that holds it
C9_Witness ==
    /\ upc = "returned"
    /\ NumRecords = 1
    /\ app_start_addr = <<65535, 65280>>
    /\ family_id = BAOCHIP_1X_UF2_FAMILY

=============================================================================
